---- MODULE Spec2Model ----
(***************************************************************************)
(* Model of the node tree editor of src/app/page.tsx (NodeTreeEditor).     *)
(*                                                                         *)
(* A NodeItem is a record [id, label, children, parentId, isCut, col, row] *)
(* whose children field is a sequence of NodeItems.  Ids are integers: 0   *)
(* is 'root', uuidv4() returns the next unused positive integer.  A label  *)
(* is a sequence of characters, so that String.trim() is computed.  An     *)
(* absent parentId is NoParent; an absent isCut is read by the code only   *)
(* for truthiness and is FALSE here.  A nullable React state (contextNode, *)
(* clipboard) is a sequence of length 0 (null) or 1.  contextMenu is TRUE  *)
(* when it holds an anchor position and FALSE when it is null.             *)
(***************************************************************************)
EXTENDS Integers, Sequences, FiniteSets, TLC

VARIABLES nodes, contextNode, contextMenu, modalOpen, newLabel, clipboard,
          uuid, hist

vars == <<nodes, contextNode, contextMenu, modalOpen, newLabel, clipboard,
          uuid, hist>>

\* ------------------------------------------------------------------ bounds
\* Number of ids uuidv4() may hand out in one run.
MaxUuid == 4
\* Number of handler invocations (add, cut, copy, paste, delete) in one run.
MaxOps == 4

\* ------------------------------------------------------- program constants
RootId == 0
NoParent == -1
RootLabel == <<"R">>
\* The texts the user may type into the modal's TextField.
Labels == { <<>>, <<" ">>, <<" ", "a">> }

Max(a, b) == IF a >= b THEN a ELSE b

\* ------------------------------------------------------------ String.trim
IsSpace(c) == c = " "

RECURSIVE trimStart(_)
trimStart(s) ==
  IF s # <<>> /\ IsSpace(Head(s)) THEN trimStart(Tail(s)) ELSE s

RECURSIVE trimEnd(_)
trimEnd(s) ==
  IF s # <<>> /\ IsSpace(s[Len(s)]) THEN trimEnd(SubSeq(s, 1, Len(s) - 1)) ELSE s

trim(s) == trimEnd(trimStart(s))

\* ------------------------------------------------------------ tree helpers
RECURSIVE flattenTree(_)
flattenTree(tree) ==
  IF tree = <<>> THEN <<>>
  ELSE <<Head(tree)>> \o flattenTree(Head(tree).children) \o flattenTree(Tail(tree))

\* Mutant: only the node itself is flagged, not its descendants.
markCutNodes_shallow(node) == [node EXCEPT !.isCut = TRUE]

RECURSIVE markCutNodes(_)
markCutNodes(node) ==
  [node EXCEPT !.isCut = TRUE,
               !.children = [i \in DOMAIN node.children |-> markCutNodes(node.children[i])]]

RECURSIVE clearCutFlags(_)
clearCutFlags(node) ==
  [node EXCEPT !.isCut = FALSE,
               !.children = [i \in DOMAIN node.children |-> clearCutFlags(node.children[i])]]

\* Mutant: the child is put in front of the others.
RECURSIVE updateTree_front(_, _, _)
updateTree_front(current, id, child) ==
  [i \in DOMAIN current |->
     LET node == current[i] IN
     IF node.id = id THEN [node EXCEPT !.children = <<child>> \o node.children]
     ELSE IF Len(node.children) > 0
          THEN [node EXCEPT !.children = updateTree_front(node.children, id, child)]
          ELSE node]

\* updateTree(current, id, n => { n.children = [...n.children, child] })
RECURSIVE updateTree(_, _, _)
updateTree(current, id, child) ==
  [i \in DOMAIN current |->
     LET node == current[i] IN
     IF node.id = id THEN [node EXCEPT !.children = Append(node.children, child)]
     ELSE IF Len(node.children) > 0
          THEN [node EXCEPT !.children = updateTree(node.children, id, child)]
          ELSE node]

RECURSIVE replaceNodeInTree(_, _, _)
replaceNodeInTree(list, targetId, updatedNode) ==
  [i \in DOMAIN list |->
     LET node == list[i] IN
     IF node.id = targetId THEN updatedNode
     ELSE IF Len(node.children) > 0
          THEN [node EXCEPT !.children = replaceNodeInTree(node.children, targetId, updatedNode)]
          ELSE node]

\* list.filter(n => n.id !== id).map(n => ({...n, children: f(n.children)}))
RECURSIVE filterOut(_, _)
filterOut(list, id) ==
  IF list = <<>> THEN <<>>
  ELSE LET n == Head(list) IN
       IF n.id = id THEN filterOut(Tail(list), id)
       ELSE <<[n EXCEPT !.children = filterOut(n.children, id)]>> \o filterOut(Tail(list), id)

\* Mutant: the cut node is left where it was.
removeFrom_keep(list, clip) == list

deleteFrom(list, ctx) == IF ctx = <<>> THEN filterOut(list, NoParent) ELSE filterOut(list, ctx[1].id)

removeFrom(list, clip) == IF clip = <<>> THEN filterOut(list, NoParent) ELSE filterOut(list, clip[1].node.id)

\* recalculateLayout as src/unnamed/part_000 has it: the children of a node
\* start on the row below the node.
RECURSIVE recalculateLayout_part000(_, _, _)
recalculateLayout_part000(tree, startRow, col) ==
  IF tree = <<>> THEN <<<<>>, startRow>>
  ELSE LET done == recalculateLayout_part000(SubSeq(tree, 1, Len(tree) - 1), startRow, col)
           row  == done[2]
           node == tree[Len(tree)]
           sub  == recalculateLayout_part000(node.children, row + 1, col + 1)
           nodeWithLayout == [node EXCEPT !.col = col, !.row = row, !.children = sub[1]]
       IN <<Append(done[1], nodeWithLayout), Max(row + 1, sub[2])>>

\* Mutant: the next sibling starts at row + 1 whatever the children used.
RECURSIVE recalculateLayout_noMax(_, _, _)
recalculateLayout_noMax(tree, startRow, col) ==
  IF tree = <<>> THEN <<<<>>, startRow>>
  ELSE LET done == recalculateLayout_noMax(SubSeq(tree, 1, Len(tree) - 1), startRow, col)
           row  == done[2]
           node == tree[Len(tree)]
           sub  == recalculateLayout_noMax(node.children, row, col + 1)
           nodeWithLayout == [node EXCEPT !.col = col, !.row = row, !.children = sub[1]]
       IN <<Append(done[1], nodeWithLayout), row + 1>>

\* Mutant: the children are laid out in their parent's column.
RECURSIVE recalculateLayout_sameCol(_, _, _)
recalculateLayout_sameCol(tree, startRow, col) ==
  IF tree = <<>> THEN <<<<>>, startRow>>
  ELSE LET done == recalculateLayout_sameCol(SubSeq(tree, 1, Len(tree) - 1), startRow, col)
           row  == done[2]
           node == tree[Len(tree)]
           sub  == recalculateLayout_sameCol(node.children, row, col)
           nodeWithLayout == [node EXCEPT !.col = col, !.row = row, !.children = sub[1]]
       IN <<Append(done[1], nodeWithLayout), Max(row + 1, sub[2])>>

\* Mutant: a node already placed further down keeps its row.
RECURSIVE recalculateLayout_keepRow(_, _, _)
recalculateLayout_keepRow(tree, startRow, col) ==
  IF tree = <<>> THEN <<<<>>, startRow>>
  ELSE LET done == recalculateLayout_keepRow(SubSeq(tree, 1, Len(tree) - 1), startRow, col)
           node == tree[Len(tree)]
           row  == Max(done[2], node.row)
           sub  == recalculateLayout_keepRow(node.children, row, col + 1)
           nodeWithLayout == [node EXCEPT !.col = col, !.row = row, !.children = sub[1]]
       IN <<Append(done[1], nodeWithLayout), Max(row + 1, sub[2])>>

\* Mutant: the row does not advance after a node without children.
RECURSIVE recalculateLayout_stay(_, _, _)
recalculateLayout_stay(tree, startRow, col) ==
  IF tree = <<>> THEN <<<<>>, startRow>>
  ELSE LET done == recalculateLayout_stay(SubSeq(tree, 1, Len(tree) - 1), startRow, col)
           row  == done[2]
           node == tree[Len(tree)]
           sub  == recalculateLayout_stay(node.children, row, col + 1)
           nodeWithLayout == [node EXCEPT !.col = col, !.row = row, !.children = sub[1]]
       IN <<Append(done[1], nodeWithLayout), Max(row, sub[2])>>

\* Mutant: a blank row is left after every node.
RECURSIVE recalculateLayout_gap(_, _, _)
recalculateLayout_gap(tree, startRow, col) ==
  IF tree = <<>> THEN <<<<>>, startRow>>
  ELSE LET done == recalculateLayout_gap(SubSeq(tree, 1, Len(tree) - 1), startRow, col)
           row  == done[2]
           node == tree[Len(tree)]
           sub  == recalculateLayout_gap(node.children, row, col + 1)
           nodeWithLayout == [node EXCEPT !.col = col, !.row = row, !.children = sub[1]]
       IN <<Append(done[1], nodeWithLayout), Max(row + 1, sub[2]) + 1>>

\* recalculateLayout(tree, startRow, col) -> <<tree', next row>>
RECURSIVE recalculateLayout(_, _, _)
recalculateLayout(tree, startRow, col) ==
  IF tree = <<>> THEN <<<<>>, startRow>>
  ELSE LET done == recalculateLayout(SubSeq(tree, 1, Len(tree) - 1), startRow, col)
           row  == done[2]
           node == tree[Len(tree)]
           sub  == recalculateLayout(node.children, row, col + 1)
           nodeWithLayout == [node EXCEPT !.col = col, !.row = row, !.children = sub[1]]
       IN <<Append(done[1], nodeWithLayout), Max(row + 1, sub[2])>>

\* Mutant: a shallow clone, the children keep their ids.
deepClone_shallow(node, used) ==
  << [node EXCEPT !.id = used + 1, !.isCut = FALSE, !.col = 0, !.row = 0], used + 1 >>

\* deepClone(node), the ids drawn in evaluation order: the node's own id first,
\* then its children from left to right.  Returns <<clone, last id used>>.
RECURSIVE deepClone(_, _)
RECURSIVE deepCloneAll(_, _)
deepClone(node, used) ==
  LET kids == deepCloneAll(node.children, used + 1) IN
  << [node EXCEPT !.id = used + 1, !.isCut = FALSE, !.col = 0, !.row = 0,
                  !.children = kids[1]],
     kids[2] >>

deepCloneAll(list, used) ==
  IF list = <<>> THEN <<<<>>, used>>
  ELSE LET first == deepClone(Head(list), used)
           rest  == deepCloneAll(Tail(list), first[2])
       IN <<<<first[1]>> \o rest[1], rest[2]>>

NodeSet(tree) == { flattenTree(tree)[i] : i \in DOMAIN flattenTree(tree) }

IdsOf(tree) == { n.id : n \in NodeSet(tree) }

InForest(tree, id) == \E i \in DOMAIN flattenTree(tree) : flattenTree(tree)[i].id = id

\* ------------------------------------------------------------------- state
rootNode ==
  [id |-> RootId, label |-> RootLabel, children |-> <<>>, parentId |-> NoParent,
   isCut |-> FALSE, col |-> 0, row |-> 0]

\* hist is a history variable: the number of handler invocations so far, the
\* last two of them (operation and the id of contextNode at the time) and the
\* forest and clipboard as they were before the last one, and the ids of the
\* nodes that handleDelete has removed from the forest so far.
NoOp == [op |-> "none", id |-> NoParent]

ctxId == IF contextNode = <<>> THEN NoParent ELSE contextNode[1].id

RecordRemoving(op, ids) ==
  /\ hist.n < MaxOps
  /\ hist' = [n |-> hist.n + 1,
              last |-> [op |-> op, id |-> ctxId], prev |-> hist.last,
              nodes |-> nodes, clipboard |-> clipboard,
              deleted |-> hist.deleted \cup ids]

Record(op) == RecordRemoving(op, {})

Init ==
  /\ nodes = <<rootNode>>
  /\ contextNode = <<>>
  /\ contextMenu = FALSE
  /\ modalOpen = FALSE
  /\ newLabel = <<>>
  /\ clipboard = <<>>
  /\ uuid = 0
  /\ hist = [n |-> 0, last |-> NoOp, prev |-> NoOp, nodes |-> <<rootNode>>, clipboard |-> <<>>,
             deleted |-> {}]

\* ----------------------------------------------------------------- actions
\* A menu item is reachable while the Menu is open (open={!!contextMenu}); with
\* gated = FALSE the handler is invoked whatever the menu's state, as a plain
\* call of the handler.
MenuShown(gated) == gated => contextMenu
ModalShown(gated) == gated => modalOpen

\* onContextMenu of a rendered node: the node object of the current forest.
handleRightClick ==
  /\ ~contextMenu /\ ~modalOpen
  /\ \E i \in DOMAIN flattenTree(nodes) :
       contextNode' = <<flattenTree(nodes)[i]>>
  /\ contextMenu' = TRUE
  /\ UNCHANGED <<nodes, modalOpen, newLabel, clipboard, uuid, hist>>

handleCloseContextMenu ==
  /\ contextMenu
  /\ contextMenu' = FALSE
  /\ UNCHANGED <<nodes, contextNode, modalOpen, newLabel, clipboard, uuid, hist>>

handleAddChild(gated) ==
  /\ MenuShown(gated) /\ ~modalOpen
  /\ modalOpen' = TRUE
  /\ contextMenu' = FALSE
  /\ UNCHANGED <<nodes, contextNode, newLabel, clipboard, uuid, hist>>

\* TextField onChange
setNewLabel ==
  /\ modalOpen
  /\ \E l \in Labels : l # newLabel /\ newLabel' = l
  /\ UNCHANGED <<nodes, contextNode, contextMenu, modalOpen, clipboard, uuid, hist>>

\* Modal onClose and the cancel button
closeModal ==
  /\ modalOpen
  /\ modalOpen' = FALSE
  /\ UNCHANGED <<nodes, contextNode, contextMenu, newLabel, clipboard, uuid, hist>>

handleModalSubmit(gated) ==
  /\ ModalShown(gated)
  /\ Record("add")
  /\ IF contextNode = <<>> \/ trim(newLabel) = <<>>
     THEN UNCHANGED <<nodes, contextNode, contextMenu, modalOpen, newLabel, clipboard, uuid>>
     ELSE /\ uuid < MaxUuid
          /\ LET newChild == [id |-> uuid + 1, label |-> newLabel, children |-> <<>>,
                              parentId |-> contextNode[1].id, isCut |-> FALSE,
                              col |-> 0, row |-> 0]
                 updatedTree == updateTree(nodes, contextNode[1].id, newChild)
             IN nodes' = recalculateLayout(updatedTree, 0, 0)[1]
          /\ uuid' = uuid + 1
          /\ newLabel' = <<>>
          /\ modalOpen' = FALSE
          /\ UNCHANGED <<contextNode, contextMenu, clipboard>>

handleCut(gated) ==
  /\ MenuShown(gated)
  /\ Record("cut")
  /\ IF contextNode = <<>> \/ ctxId = RootId
     THEN UNCHANGED <<nodes, contextNode, contextMenu, modalOpen, newLabel, clipboard, uuid>>
     ELSE LET cutNodeMarked == markCutNodes(contextNode[1]) IN
          /\ nodes' = replaceNodeInTree(nodes, cutNodeMarked.id, cutNodeMarked)
          /\ clipboard' = <<[mode |-> "cut", node |-> cutNodeMarked]>>
          /\ contextMenu' = FALSE
          /\ UNCHANGED <<contextNode, modalOpen, newLabel, uuid>>

handleCopy(gated) ==
  /\ MenuShown(gated)
  /\ Record("copy")
  /\ IF contextNode = <<>> \/ ctxId = RootId
     THEN UNCHANGED <<nodes, contextNode, contextMenu, modalOpen, newLabel, clipboard, uuid>>
     ELSE /\ clipboard' = <<[mode |-> "copy", node |-> contextNode[1]]>>
          /\ contextMenu' = FALSE
          /\ UNCHANGED <<nodes, contextNode, modalOpen, newLabel, uuid>>

\* Mutant: the delete item is enabled on root.
deleteDisabled_noRoot ==
  \/ contextNode = <<>>
  \/ Len(contextNode[1].children) > 0

\* Mutant: the delete item is enabled on a node that has children.
deleteDisabled_noChildren ==
  \/ contextNode = <<>>
  \/ ctxId = RootId

\* disabled prop of the delete MenuItem
deleteDisabled ==
  \/ contextNode = <<>>
  \/ ctxId = RootId
  \/ Len(contextNode[1].children) > 0

handleDelete(gated) ==
  /\ MenuShown(gated)
  /\ IF deleteDisabled
     THEN /\ Record("delete")
          /\ UNCHANGED <<nodes, contextNode, contextMenu, modalOpen, newLabel, clipboard, uuid>>
     ELSE LET cleaned == deleteFrom(nodes, contextNode) IN
          /\ RecordRemoving("delete", IdsOf(nodes) \ IdsOf(cleaned))
          /\ nodes' = recalculateLayout(cleaned, 0, 0)[1]
          /\ contextMenu' = FALSE
          /\ UNCHANGED <<contextNode, modalOpen, newLabel, clipboard, uuid>>

\* disabled prop of the paste MenuItem
pasteDisabled == clipboard = <<>>

\* Mutant: no check that the target is the held node.
pasteRejected_noSelf ==
  \/ contextNode = <<>>
  \/ clipboard = <<>>

\* the early return of handlePaste
pasteRejected ==
  \/ contextNode = <<>>
  \/ clipboard = <<>>
  \/ ctxId = clipboard[1].node.id

\* Mutant: the forest is not laid out again after a paste.
handlePaste_noLayout(gated) ==
  /\ MenuShown(gated)
  /\ Record("paste")
  /\ IF pasteDisabled \/ pasteRejected
     THEN UNCHANGED <<nodes, contextNode, contextMenu, modalOpen, newLabel, clipboard, uuid>>
     ELSE LET clip == clipboard[1]
              removed == IF clip.mode = "cut" THEN removeFrom(nodes, clipboard) ELSE nodes
              cloned == deepClone(clip.node, uuid)
              nodeToPaste == IF clip.mode = "copy" THEN cloned[1] ELSE clearCutFlags(clip.node)
              updatedTree == updateTree(removed, contextNode[1].id, nodeToPaste)
          IN /\ clip.mode = "copy" => cloned[2] <= MaxUuid
             /\ nodes' = updatedTree
             /\ uuid' = IF clip.mode = "copy" THEN cloned[2] ELSE uuid
             /\ clipboard' = <<>>
             /\ contextMenu' = FALSE
             /\ UNCHANGED <<contextNode, modalOpen, newLabel>>

\* Mutant: the clipboard is not cleared after a paste.
handlePaste_keepClipboard(gated) ==
  /\ MenuShown(gated)
  /\ Record("paste")
  /\ IF pasteDisabled \/ pasteRejected
     THEN UNCHANGED <<nodes, contextNode, contextMenu, modalOpen, newLabel, clipboard, uuid>>
     ELSE LET clip == clipboard[1]
              removed == IF clip.mode = "cut" THEN removeFrom(nodes, clipboard) ELSE nodes
              cloned == deepClone(clip.node, uuid)
              nodeToPaste == IF clip.mode = "copy" THEN cloned[1] ELSE clearCutFlags(clip.node)
              updatedTree == updateTree(removed, contextNode[1].id, nodeToPaste)
          IN /\ clip.mode = "copy" => cloned[2] <= MaxUuid
             /\ nodes' = recalculateLayout(updatedTree, 0, 0)[1]
             /\ uuid' = IF clip.mode = "copy" THEN cloned[2] ELSE uuid
             /\ contextMenu' = FALSE
             /\ UNCHANGED <<contextNode, modalOpen, newLabel, clipboard>>

handlePaste(gated) ==
  /\ MenuShown(gated)
  /\ Record("paste")
  /\ IF pasteDisabled \/ pasteRejected
     THEN UNCHANGED <<nodes, contextNode, contextMenu, modalOpen, newLabel, clipboard, uuid>>
     ELSE LET clip == clipboard[1]
              removed == IF clip.mode = "cut" THEN removeFrom(nodes, clipboard) ELSE nodes
              cloned == deepClone(clip.node, uuid)
              nodeToPaste == IF clip.mode = "copy" THEN cloned[1] ELSE clearCutFlags(clip.node)
              updatedTree == updateTree(removed, contextNode[1].id, nodeToPaste)
          IN /\ clip.mode = "copy" => cloned[2] <= MaxUuid
             /\ nodes' = recalculateLayout(updatedTree, 0, 0)[1]
             /\ uuid' = IF clip.mode = "copy" THEN cloned[2] ELSE uuid
             /\ clipboard' = <<>>
             /\ contextMenu' = FALSE
             /\ UNCHANGED <<contextNode, modalOpen, newLabel>>

Next ==
  \/ handleRightClick
  \/ handleCloseContextMenu
  \/ handleAddChild(TRUE)
  \/ setNewLabel
  \/ closeModal
  \/ handleModalSubmit(TRUE)
  \/ handleCut(TRUE)
  \/ handleCopy(TRUE)
  \/ handleDelete(TRUE)
  \/ handlePaste(TRUE)

Spec == Init /\ [][Next]_vars

\* The handlers called in any state, not only through an open menu or modal:
\* each handler guards on contextNode alone, and contextNode outlives the menu.
NextCall ==
  \/ handleRightClick
  \/ handleCloseContextMenu
  \/ handleAddChild(FALSE)
  \/ setNewLabel
  \/ closeModal
  \/ handleModalSubmit(FALSE)
  \/ handleCut(FALSE)
  \/ handleCopy(FALSE)
  \/ handleDelete(FALSE)
  \/ handlePaste(FALSE)

SpecCall == Init /\ [][NextCall]_vars

\* ------------------------------------------------- vocabulary of the claims
ChildIds(node) == [i \in DOMAIN node.children |-> node.children[i].id]

IsChildOf(tree, p, c) ==
  \E n \in NodeSet(tree) : n.id = p /\ \E i \in DOMAIN n.children : n.children[i].id = c

ParentIds(tree, c) ==
  { n.id : n \in { m \in NodeSet(tree) : \E i \in DOMAIN m.children : m.children[i].id = c } }

LastChild(node) == node.children[Len(node.children)]

RemoveId(seq, id) == SelectSeq(seq, LAMBDA x : x # id)

\* Same shape and labels, node by node.
RECURSIVE SameShape(_, _)
SameShape(a, b) ==
  /\ a.label = b.label
  /\ Len(a.children) = Len(b.children)
  /\ \A i \in DOMAIN a.children : SameShape(a.children[i], b.children[i])

\* What of a forest is structure: ids, labels and the order of children.
RECURSIVE Structure(_)
Structure(tree) ==
  [i \in DOMAIN tree |->
     [id |-> tree[i].id, label |-> tree[i].label, children |-> Structure(tree[i].children)]]

\* The forest with the last child of the node with id t taken away.
RECURSIVE DropLastChildOf(_, _)
DropLastChildOf(tree, t) ==
  [i \in DOMAIN tree |->
     IF tree[i].id = t
     THEN [tree[i] EXCEPT !.children = SubSeq(tree[i].children, 1, Len(tree[i].children) - 1)]
     ELSE [tree[i] EXCEPT !.children = DropLastChildOf(tree[i].children, t)]]

Unchanged == nodes = hist.nodes /\ clipboard = hist.clipboard

\* The last two invocations were op1(N) then op2(T), N a non-root node of the
\* forest, T a node of the forest other than N.
Followed(op1, op2) ==
  /\ hist.prev.op = op1 /\ hist.last.op = op2
  /\ hist.prev.id # RootId
  /\ hist.last.id # hist.prev.id
  /\ InForest(hist.nodes, hist.prev.id)
  /\ InForest(hist.nodes, hist.last.id)

\* ------------------------------------------------------------------ claims

\* C1: cut(N) followed by paste(T), N a non-root node and T # N a node of the
\* forest, leaves a node with N's id as the last child of T, with isCut false
\* on it and on its descendants, and N is no longer a child of its original
\* parent (read for a T other than that parent, where the clauses can agree).
C1_CutPastePreservesId ==
  Followed("cut", "paste") =>
    LET N == hist.prev.id
        T == hist.last.id
    IN /\ \E t \in NodeSet(nodes) :
            /\ t.id = T
            /\ t.children # <<>>
            /\ LastChild(t).id = N
            /\ \A d \in NodeSet(<<LastChild(t)>>) : d.isCut = FALSE
       /\ \A p \in ParentIds(hist.nodes, N) : p # T => ~IsChildOf(nodes, p, N)

\* C2 as stated: copy(N) followed by paste(T) appends to T's children a clone
\* of N's subtree (same shape and labels, ids all different from the original
\* subtree's, isCut false), and the original subtree stays in place with its
\* ids, labels and children unchanged.
C2_Original ==
  Followed("copy", "paste") =>
    LET N == hist.prev.id
        T == hist.last.id
    IN \A orig \in { n \in NodeSet(hist.nodes) : n.id = N } :
         /\ \E t \in NodeSet(nodes) :
              /\ t.id = T
              /\ t.children # <<>>
              /\ SameShape(LastChild(t), orig)
              /\ IdsOf(<<LastChild(t)>>) \cap IdsOf(<<orig>>) = {}
              /\ \A d \in NodeSet(<<LastChild(t)>>) : d.isCut = FALSE
         /\ \E now \in NodeSet(nodes) :
              now.id = N /\ Structure(<<now>>) = Structure(<<orig>>)

\* C2 amended: as C2, but what stays unchanged is the forest apart from the
\* clone: every node that was there keeps its id, label and children, except
\* that T (which may lie inside N's subtree) has the clone as its last child.
C2_CopyPasteNewIds ==
  Followed("copy", "paste") =>
    LET N == hist.prev.id
        T == hist.last.id
    IN \A orig \in { n \in NodeSet(hist.nodes) : n.id = N } :
         /\ \E t \in NodeSet(nodes) :
              /\ t.id = T
              /\ t.children # <<>>
              /\ SameShape(LastChild(t), orig)
              /\ IdsOf(<<LastChild(t)>>) \cap IdsOf(<<orig>>) = {}
              /\ \A d \in NodeSet(<<LastChild(t)>>) : d.isCut = FALSE
         /\ Structure(DropLastChildOf(nodes, T)) = Structure(hist.nodes)

C2_Witness ==
  /\ Followed("copy", "paste")
  /\ clipboard = <<>>
  /\ \E orig \in NodeSet(hist.nodes) :
       /\ orig.id = hist.prev.id
       /\ Len(orig.children) > 0
       /\ \E t \in NodeSet(nodes) :
            t.id = hist.last.id /\ t.children # <<>> /\ SameShape(LastChild(t), orig)

\* C3: the parentId of every non-root node is the id of the node whose
\* children list contains it.
C3_ParentIdConsistent ==
  \A n \in NodeSet(nodes) :
    \A i \in DOMAIN n.children : n.children[i].parentId = n.id

\* C4: no two nodes of the forest have the same id.
C4_IdsUnique ==
  \A i, j \in DOMAIN flattenTree(nodes) :
    flattenTree(nodes)[i].id = flattenTree(nodes)[j].id => i = j

C4_Witness ==
  /\ hist.last.op = "paste"
  /\ hist.clipboard # <<>> /\ hist.clipboard[1].mode = "copy"
  /\ Len(flattenTree(nodes)) > Len(flattenTree(hist.nodes)) + 1

\* C5: cut, copy and delete invoked on root leave the forest and the
\* clipboard unchanged.
C5_RootInvariants ==
  (hist.last.op \in {"cut", "copy", "delete"} /\ hist.last.id = RootId) => Unchanged

C5_Witness ==
  /\ hist.last.op = "delete" /\ hist.last.id = RootId
  /\ hist.prev.op \in {"cut", "copy"} /\ hist.prev.id = RootId
  /\ Len(flattenTree(nodes)) > 1
  /\ Unchanged

\* C6: paste onto the node the clipboard holds, and paste with an empty
\* clipboard, leave the forest and the clipboard unchanged.
C6_SelfPasteGuard ==
  (/\ hist.last.op = "paste"
   /\ \/ hist.clipboard = <<>>
      \/ hist.clipboard[1].node.id = hist.last.id) => Unchanged

C6_Witness ==
  /\ hist.last.op = "paste"
  /\ hist.clipboard # <<>>
  /\ hist.clipboard[1].node.id = hist.last.id
  /\ hist.clipboard[1].mode = "cut"
  /\ Unchanged

\* C7: an operation invoked with a target id that is the id of no node of the
\* current forest leaves the forest and the clipboard unchanged.
C7_UnknownTargetNoOp ==
  (/\ hist.last.op \in {"add", "cut", "copy", "paste", "delete"}
   /\ hist.last.id # NoParent
   /\ ~InForest(hist.nodes, hist.last.id)) => Unchanged

RowsOf(node) == { n.row : n \in NodeSet(<<node>>) }

\* The first child of a node, its first child, and so on.
RECURSIVE FirstChildChain(_)
FirstChildChain(node) ==
  IF node.children = <<>> THEN {}
  ELSE {node.children[1].id} \cup FirstChildChain(node.children[1])

SiblingRowsDisjoint(list) ==
  \A i, j \in DOMAIN list : i # j => RowsOf(list[i]) \cap RowsOf(list[j]) = {}

RowMonotone(forest) ==
  /\ \A n \in NodeSet(forest) :
       /\ \A d \in NodeSet(n.children) :
            /\ d.row >= n.row
            /\ d.id \notin FirstChildChain(n) => d.row > n.row
       /\ SiblingRowsDisjoint(n.children)
  /\ SiblingRowsDisjoint(forest)

C10_Columns ==
  /\ \A i \in DOMAIN nodes : nodes[i].col = 0
  /\ \A n \in NodeSet(nodes) :
       \A i \in DOMAIN n.children : n.children[i].col = n.col + 1

C10_Witness ==
  /\ hist.last.op = "paste"
  /\ \E n \in NodeSet(nodes) : n.col = 3

\* The forest with every node's col, row, isCut and label overwritten.
RECURSIVE Scramble(_, _, _, _, _)
Scramble(tree, c, r, cut, label) ==
  [i \in DOMAIN tree |->
     [tree[i] EXCEPT !.col = c, !.row = r, !.isCut = cut, !.label = label,
                     !.children = Scramble(tree[i].children, c, r, cut, label)]]

\* Ids and coordinates of a forest, in its shape.
RECURSIVE Coordinates(_)
Coordinates(tree) ==
  [i \in DOMAIN tree |->
     [id |-> tree[i].id, col |-> tree[i].col, row |-> tree[i].row,
      children |-> Coordinates(tree[i].children)]]

ScrambleValues == {0, 2}

\* C11: recalculateLayout applied to its own result returns the same forest and
\* the same next free row, and the coordinates it assigns do not depend on the
\* col, row, isCut or label found in its input.
C11_LayoutIdempotent ==
  \A c \in ScrambleValues, r \in ScrambleValues, cut \in BOOLEAN, label \in {<<>>, RootLabel} :
    LET F == Scramble(nodes, c, r, cut, label)
        once == recalculateLayout(F, 0, 0)
        twice == recalculateLayout(once[1], 0, 0)
        plain == recalculateLayout(nodes, 0, 0)
    IN /\ twice = once
       /\ Coordinates(once[1]) = Coordinates(plain[1])
       /\ once[2] = plain[2]

C11_Witness ==
  /\ Len(flattenTree(nodes)) >= 4
  /\ \E n \in NodeSet(nodes) : n.isCut /\ n.row = 1 /\ n.col = 2
  /\ Coordinates(recalculateLayout(Scramble(nodes, 2, 2, FALSE, <<>>), 0, 0)[1]) = Coordinates(nodes)
  /\ Scramble(nodes, 2, 2, FALSE, <<>>) # nodes

\* A step of the handler op: the count of handler invocations goes up.
StepOf(op) == hist'.n = hist.n + 1 /\ hist'.last.op = op

\* C12: confirming add-child on a node of the forest with a blank label leaves
\* the forest unchanged and the modal open; with a non-blank label it appends
\* one new leaf (fresh id, parentId the target's id, no children) as the last
\* child of the target, leaves every other node's id, label and child order
\* and the clipboard unchanged, and clears the pending label.
C12_AddChild ==
  [][(StepOf("add") /\ contextNode # <<>> /\ InForest(nodes, ctxId)) =>
       IF trim(newLabel) = <<>>
       THEN /\ nodes' = nodes
            /\ modalOpen' = TRUE
            /\ clipboard' = clipboard
       ELSE /\ \E t \in NodeSet(nodes') :
                 /\ t.id = ctxId
                 /\ t.children # <<>>
                 /\ LastChild(t).id \notin IdsOf(nodes)
                 /\ LastChild(t).parentId = ctxId
                 /\ LastChild(t).children = <<>>
                 /\ LastChild(t).label = newLabel
            /\ Len(flattenTree(nodes')) = Len(flattenTree(nodes)) + 1
            /\ Structure(DropLastChildOf(nodes', ctxId)) = Structure(nodes)
            /\ clipboard' = clipboard
            /\ newLabel' = <<>>
  ]_vars

C12_Witness ==
  /\ hist.last.op = "add" /\ hist.prev.op = "cut"
  /\ clipboard # <<>>
  /\ newLabel = <<>> /\ ~modalOpen
  /\ Len(flattenTree(nodes)) = Len(flattenTree(hist.nodes)) + 1
  /\ \E t \in NodeSet(nodes) :
       t.id = hist.last.id /\ Len(t.children) >= 2 /\ LastChild(t).id \notin IdsOf(hist.nodes)

\* C13: a paste that goes through (something is held, the target is another
\* node) leaves the clipboard empty, and a paste with the clipboard empty, as
\* after such a paste, changes neither the forest nor the clipboard; the
\* clipboard has one slot, which only a cut or copy fills, with the node it was
\* invoked on, and only a paste empties.
C13_SingleUseClipboard ==
  [][/\ Len(clipboard') <= 1
     /\ (StepOf("paste") /\ contextNode # <<>> /\ clipboard # <<>>
           /\ ctxId # clipboard[1].node.id) => clipboard' = <<>>
     /\ (StepOf("paste") /\ clipboard = <<>>) => (nodes' = nodes /\ clipboard' = <<>>)
     /\ clipboard' # clipboard =>
          \/ StepOf("paste") /\ clipboard' = <<>>
          \/ /\ StepOf("cut") \/ StepOf("copy")
             /\ clipboard' # <<>>
             /\ clipboard'[1].mode = hist'.last.op
             /\ clipboard'[1].node.id = ctxId
  ]_vars

C13_Witness ==
  /\ hist.last.op = "paste" /\ hist.prev.op = "paste"
  /\ hist.clipboard = <<>>
  /\ Unchanged
  /\ Len(flattenTree(nodes)) >= 3
  /\ hist.last.id # RootId

\* C14: with the clipboard holding a cut node N, paste(T) on a node T # N of
\* the forest leaves the set of node ids in the forest exactly as it was
\* before the paste: no node is lost and none is added (read for an N that is
\* still in the forest when the paste happens).
C14_CutPasteConservesIds ==
  (/\ hist.last.op = "paste"
   /\ hist.clipboard # <<>>
   /\ hist.clipboard[1].mode = "cut"
   /\ InForest(hist.nodes, hist.clipboard[1].node.id)
   /\ hist.last.id # hist.clipboard[1].node.id
   /\ InForest(hist.nodes, hist.last.id))
  => IdsOf(nodes) = IdsOf(hist.nodes)

\* C15: a node of the forest has isCut true only if the clipboard holds a cut
\* node N and the node is N or a descendant of N; after a paste, or after a
\* later cut or copy replaced the clipboard, no node outside the held cut
\* subtree is flagged.
C15_IsCutReflectsClipboard ==
  \A n \in NodeSet(nodes) :
    n.isCut =>
      /\ clipboard # <<>>
      /\ clipboard[1].mode = "cut"
      /\ \E m \in NodeSet(nodes) :
           m.id = clipboard[1].node.id /\ n.id \in IdsOf(<<m>>)

\* C16: once delete has removed the node with id X from the forest, no later
\* state contains a node with id X, whatever add-child, cut, copy, paste and
\* delete operations follow, and also when X was held in the clipboard by a
\* cut at the time it was deleted.
C16_DeletedStaysDeleted == hist.deleted \cap IdsOf(nodes) = {}

\* C17: in every reachable state the col and row stored on every node are the
\* values recalculateLayout assigns when run on that forest; no operation
\* leaves a node at stale or placeholder coordinates.
C17_LayoutCurrent ==
  /\ Coordinates(nodes) = Coordinates(recalculateLayout(nodes, 0, 0)[1])
  /\ nodes = recalculateLayout(nodes, 0, 0)[1]

C17_Witness ==
  /\ hist.last.op = "paste"
  /\ hist.clipboard # <<>>
  /\ hist.clipboard[1].mode = "cut"
  /\ \E n \in NodeSet(nodes) :
       /\ n.id = hist.clipboard[1].node.id
       /\ n.col # hist.clipboard[1].node.col
       /\ n.row # hist.clipboard[1].node.row

LeavesBefore(flat, k) == Cardinality({ i \in 1..(k - 1) : flat[i].children = <<>> })

RECURSIVE FlagAll(_)
FlagAll(tree) ==
  [i \in DOMAIN tree |->
     [tree[i] EXCEPT !.isCut = TRUE, !.children = FlagAll(tree[i].children)]]

RECURSIVE FlagSubtree(_, _)
FlagSubtree(tree, id) ==
  [i \in DOMAIN tree |->
     IF tree[i].id = id
     THEN FlagAll(<<tree[i]>>)[1]
     ELSE [tree[i] EXCEPT !.children = FlagSubtree(tree[i].children, id)]]

NodeWithId(tree, id) == CHOOSE n \in NodeSet(tree) : n.id = id

NoOverlap(flat) ==
  \A a \in DOMAIN flat : \A b \in DOMAIN flat :
    a # b => <<flat[a].col, flat[a].row>> # <<flat[b].col, flat[b].row>>

\* C20: after recalculateLayout on a forest of pairwise distinct nodes, and so
\* in every reachable state, no two distinct nodes have the same (col, row)
\* pair.
C20_NoOverlap ==
  /\ NoOverlap(flattenTree(recalculateLayout(Scramble(nodes, 0, 0, FALSE, <<>>), 0, 0)[1]))
  /\ NoOverlap(flattenTree(nodes))

C20_Witness ==
  LET flat == flattenTree(nodes) IN
  /\ Len(flat) >= 5
  /\ \E a \in DOMAIN flat : \E b \in DOMAIN flat :
       a # b /\ flat[a].row = flat[b].row /\ flat[a].col # flat[b].col
  /\ \E a \in DOMAIN flat : \E b \in DOMAIN flat :
       a # b /\ flat[a].col = flat[b].col /\ flat[a].col = 2 /\ flat[a].row # flat[b].row

====
